---- MODULE Spec2Model ----
(***************************************************************************)
(* Model of the place-page scraper and field merger (src/naver_map.py).    *)
(*                                                                         *)
(* Text is a sequence of tokens.  A token is one character class or one    *)
(* keyword of the source: "SP" a blank, "NL" a line feed, "CR" a carriage  *)
(* return, the digits "1" "2", and ASCII stand-ins for the Korean words    *)
(* the source tests for ("Open" for the business-hours marker, "LastOrder",*)
(* "Parking", "NaverMap" "SP" "Search" for the boilerplate line, ...).     *)
(***************************************************************************)
EXTENDS Integers, Sequences, FiniteSets, TLC

(***************************************************************************)
(* String primitives of the Python runtime used by the source.             *)
(***************************************************************************)
Whitespace == {"SP", "NL", "CR"}

Digits == {"1", "2"}

RECURSIVE LStrip(_)
LStrip(s) ==
    IF s = <<>> THEN <<>>
    ELSE IF Head(s) \in Whitespace THEN LStrip(Tail(s)) ELSE s

RECURSIVE RStrip(_)
RStrip(s) ==
    IF s = <<>> THEN <<>>
    ELSE IF s[Len(s)] \in Whitespace THEN RStrip(SubSeq(s, 1, Len(s) - 1)) ELSE s

\* str.strip()
Strip(s) == RStrip(LStrip(s))

\* pat in s  (substring test)
In(pat, s) ==
    \E i \in 1..(Len(s) - Len(pat) + 1) : SubSeq(s, i, i + Len(pat) - 1) = pat

\* s.startswith(pat)
StartsWith(s, pat) == Len(pat) <= Len(s) /\ SubSeq(s, 1, Len(pat)) = pat

\* str.splitlines(): CR, NL and CR NL each end a line; no trailing empty line
RECURSIVE SplitLines(_)
SplitLines(s) ==
    IF s = <<>> THEN <<>>
    ELSE LET brk == {i \in 1..Len(s) : s[i] \in {"NL", "CR"}}
         IN  IF brk = {} THEN <<s>>
             ELSE LET i == CHOOSE j \in brk : \A k \in brk : j <= k
                      e == IF s[i] = "CR" /\ i < Len(s) /\ s[i + 1] = "NL"
                           THEN i + 1 ELSE i
                  IN  <<SubSeq(s, 1, i - 1)>> \o SplitLines(SubSeq(s, e + 1, Len(s)))

\* sep.join(parts)
RECURSIVE Join(_, _)
Join(parts, sep) ==
    IF parts = <<>> THEN <<>>
    ELSE IF Len(parts) = 1 THEN parts[1]
    ELSE parts[1] \o sep \o Join(Tail(parts), sep)

\* [f(x) for x in xs if keep(x)] for the two shapes the source uses
RECURSIVE StrippedNonEmpty(_)
StrippedNonEmpty(lines) ==
    IF lines = <<>> THEN <<>>
    ELSE LET ln == Strip(Head(lines))
         IN  (IF ln # <<>> THEN <<ln>> ELSE <<>>) \o StrippedNonEmpty(Tail(lines))

RECURSIVE KeepContaining(_, _)
KeepContaining(lines, pats) ==
    IF lines = <<>> THEN <<>>
    ELSE (IF \E p \in pats : In(p, Head(lines)) THEN <<Head(lines)>> ELSE <<>>)
         \o KeepContaining(Tail(lines), pats)

\* xs[:n]
Take(xs, n) == SubSeq(xs, 1, IF Len(xs) < n THEN Len(xs) ELSE n)

\* text.replace("\r", "\n")
ReplaceCR(s) == [i \in 1..Len(s) |-> IF s[i] = "CR" THEN "NL" ELSE s[i]]

\* re.sub(r"\n{3,}", "\n\n", text)
RECURSIVE CollapseNL(_)
CollapseNL(s) ==
    IF Len(s) >= 3 /\ s[1] = "NL" /\ s[2] = "NL" /\ s[3] = "NL"
    THEN CollapseNL(Tail(s))
    ELSE IF s = <<>> THEN <<>>
    ELSE <<Head(s)>> \o CollapseNL(Tail(s))

_normalize_text(text) == Strip(CollapseNL(ReplaceCR(text)))

(***************************************************************************)
(* extract_place_id: URL Resolver.                                         *)
(* A URL is a token sequence: "https://", a host token, then path and      *)
(* query tokens.                                                           *)
(***************************************************************************)
HostTokens == {"map.naver.com", "naver.me", "NAVER.ME", "example.com"}

\* str.lower() on a host token
Lower(tok) == IF tok = "NAVER.ME" THEN "naver.me" ELSE tok

\* urlparse(raw).netloc
Netloc(raw) ==
    IF Len(raw) >= 2 /\ raw[1] = "https://" /\ raw[2] \in HostTokens
    THEN raw[2] ELSE ""

\* "naver.me" in host
IsShortHost(host) == host = "naver.me"

\* patterns, in the order the source tries them
patterns == << <<"/entry", "/place/">>, <<"/place/">>, <<"placeId=">> >>

\* the maximal run of digits of s starting at position i  (\d+, greedy)
RECURSIVE DigitRun(_, _)
DigitRun(s, i) ==
    IF i <= Len(s) /\ s[i] \in Digits THEN <<s[i]>> \o DigitRun(s, i + 1) ELSE <<>>

\* re.search(p, raw): the group of the leftmost match, or <<>> when none
ReSearch(p, raw) ==
    LET hits == {i \in 1..Len(raw) :
                    /\ i + Len(p) <= Len(raw)
                    /\ SubSeq(raw, i, i + Len(p) - 1) = p
                    /\ raw[i + Len(p)] \in Digits}
    IN  IF hits = {} THEN <<>>
        ELSE DigitRun(raw, (CHOOSE i \in hits : \A j \in hits : i <= j) + Len(p))

\* the outcomes of urlopen(req, timeout=10) on a short link: the network fails,
\* or the redirect ends at some URL
RedirectTargets ==
    { <<"https://", "map.naver.com", "/p", "/entry", "/place/", "1", "2", "?", "placePath">>,
      <<"https://", "example.com", "/x">> }

NetOutcomes ==
    {[ok |-> FALSE, url |-> <<>>]} \cup {[ok |-> TRUE, url |-> t] : t \in RedirectTargets}

Ok(id) == [ok |-> TRUE, id |-> id, kind |-> "", msg |-> ""]

Raise(kind, msg) == [ok |-> FALSE, id |-> <<>>, kind |-> kind, msg |-> msg]

\* the for loop over patterns with its trailing raise
FirstMatch(raw) ==
    LET ms == {k \in 1..Len(patterns) : ReSearch(patterns[k], raw) # <<>>}
    IN  IF ms = {} THEN Raise("ValueError", "placeId not found")
        ELSE Ok(ReSearch(patterns[CHOOSE k \in ms : \A j \in ms : k <= j], raw))

\* variant: the empty-URL guard of lines 35-36 is missing
extract_place_id_NoBlankCheck(url, net) ==
    LET raw == Strip(url)
        host == Lower(Netloc(raw))
    IN  IF IsShortHost(host)
        THEN IF net.ok THEN FirstMatch(net.url) ELSE Raise("URLError", "network")
        ELSE FirstMatch(raw)

extract_place_id(url, net) ==
    IF Strip(url) = <<>> THEN Raise("ValueError", "url is empty")
    ELSE LET raw == Strip(url)
             host == Lower(Netloc(raw))
         IN  IF IsShortHost(host)
             THEN IF net.ok THEN FirstMatch(net.url) ELSE Raise("URLError", "network")
             ELSE FirstMatch(raw)

(***************************************************************************)
(* Field merger.  A record of the form is a function from field names to   *)
(* text; a key the dict lacks is outside its DOMAIN.                       *)
(***************************************************************************)
\* dict.get(k) as a truth value / dict.get(k, "")
Get(d, k) == IF k \in DOMAIN d THEN d[k] ELSE <<>>

\* d[k] = v
Put(d, k, v) == [x \in DOMAIN d \cup {k} |-> IF x = k THEN v ELSE d[x]]

BoilerplateLine == <<"NaverMap", "SP", "Search">>

TabLabelWords == {<<"Home">>, <<"Menu">>, <<"Info">>, <<"News">>, <<"Review">>, <<"Photo">>}

RECURSIVE FirstNameLine(_)
FirstNameLine(lines) ==
    IF lines = <<>> THEN <<>>
    ELSE LET line == Strip(Head(lines))
         IN  IF line = <<>> \/ line = BoilerplateLine \/ line \in TabLabelWords
             THEN FirstNameLine(Tail(lines))
             ELSE line

_guess_place_name(text) == FirstNameLine(SplitLines(text))

HoursMarkers == {<<"Open">>, <<"LastOrder">>}

HoursMax == 3

HoursSep == <<"SP", "/", "SP">>

_guess_business_hours(text) ==
    LET lines == StrippedNonEmpty(SplitLines(text))
        candidates == KeepContaining(lines, HoursMarkers)
    IN  Strip(Join(Take(candidates, HoursMax), HoursSep))

TipMarkers == {<<"Parking">>, <<"Amenity">>, <<"Wireless", "SP", "Internet">>, <<"Takeout">>}

TipsMax == 6

LinkPrefix == <<"MapLink:", "SP">>

\* lines 304-306
MergePlaceName(out, crawled) ==
    LET place_name == _guess_place_name(crawled.home_text)
    IN  IF place_name # <<>> /\ Get(out, "place_name") = <<>>
        THEN Put(out, "place_name", place_name) ELSE out

\* lines 308-310
MergeBusinessHours(out, crawled) ==
    LET business_hours ==
            _guess_business_hours(crawled.home_text \o <<"NL">> \o crawled.info_text)
    IN  IF business_hours # <<>> /\ Get(out, "business_hours") = <<>>
        THEN Put(out, "business_hours", business_hours) ELSE out

\* variant: location_info is overwritten with the link line
MergeLocationOverwrite(out, crawled) ==
    Put(out, "location_info", LinkPrefix \o crawled.source_url)

\* variant: the existing value is not stripped before the link line is appended
MergeLocationNoStrip(out, crawled) ==
    LET location_append == LinkPrefix \o crawled.source_url
    IN  IF Get(out, "location_info") # <<>>
        THEN Put(out, "location_info",
                 out["location_info"] \o <<"NL">> \o location_append)
        ELSE Put(out, "location_info", location_append)

\* lines 312-316
MergeLocationInfo(out, crawled) ==
    LET location_append == LinkPrefix \o crawled.source_url
    IN  IF Get(out, "location_info") # <<>>
        THEN Put(out, "location_info",
                 Strip(out["location_info"]) \o <<"NL">> \o location_append)
        ELSE Put(out, "location_info", location_append)

\* variant: the field is written whether or not it is empty
BackfillOverwrite(out, key, value) == Put(out, key, value)

\* if not out.get(key): out[key] = value
Backfill(out, key, value) ==
    IF Get(out, key) = <<>> THEN Put(out, key, value) ELSE out

\* lines 318-325
MergeTabInfo(out, crawled) ==
    Backfill(Backfill(Backfill(Backfill(out,
        "home_tab_info", crawled.home_text),
        "menu_tab_info", crawled.menu_text),
        "info_tab_info", crawled.info_text),
        "news_tab_info", crawled.news_text)

\* lines 327-331
MergeParkingTips(out, crawled) ==
    IF Get(out, "parking_or_tips") = <<>>
    THEN LET info_lines == StrippedNonEmpty(SplitLines(crawled.info_text))
             tips == KeepContaining(info_lines, TipMarkers)
         IN  IF tips # <<>>
             THEN Put(out, "parking_or_tips", Join(Take(tips, TipsMax), <<"NL">>))
             ELSE out
    ELSE out

\* lines 333-334
MergeTargetKeyword(out) ==
    IF Get(out, "target_keyword") = <<>>
    THEN Put(out, "target_keyword", Get(out, "place_name")) ELSE out

merge_blog_input_with_crawl(input_dict, crawled) ==
    MergeTargetKeyword(
      MergeParkingTips(
        MergeTabInfo(
          MergeLocationInfo(
            MergeBusinessHours(
              MergePlaceName(input_dict, crawled), crawled), crawled), crawled), crawled))

(***************************************************************************)
(* Section Text Extractor.  What frame.evaluate returns for a page is a    *)
(* Dom: the .place_section blocks (title, inner text) and the longest      *)
(* inner text of the panel selectors.                                      *)
(***************************************************************************)
\* number of characters a token stands for ("Text" is a run of ordinary text)
TokLen(tok) ==
    CASE tok = "Text" -> 12
      [] tok \in {"Depart", "Arrive", "Save", "Open", "Menu", "Info", "News", "Short"} -> 2
      [] tok \in {"StreetView", "Share"} -> 3
      [] tok = "Notify" -> 4
      [] tok = "LastOrder" -> 5
      [] OTHER -> 1

RECURSIVE CharLen(_)
CharLen(s) == IF s = <<>> THEN 0 ELSE TokLen(Head(s)) + CharLen(Tail(s))

action_tokens == {<<"Depart">>, <<"Arrive">>, <<"Save">>, <<"StreetView">>, <<"Share">>}

NoiseHits == 3

MinBlockLen == 10

\* re.sub(r"\d+$", "", raw_title)
RECURSIVE StripTrailingDigits(_)
StripTrailingDigits(s) ==
    IF s # <<>> /\ s[Len(s)] \in Digits
    THEN StripTrailingDigits(SubSeq(s, 1, Len(s) - 1)) ELSE s

\* lines 176-186: the block is dropped
IsNoise(text) ==
    \/ (In(<<"Notify">>, text) /\ In(<<"Depart">>, text) /\ In(<<"Arrive">>, text))
    \/ Cardinality({t \in action_tokens : In(t, text)}) >= NoiseHits
    \/ In(<<"Close", "SP", "Page">>, text)
    \/ In(<<"SuggestEdit">>, text)
    \/ StartsWith(text, <<"MenuImage">>)
    \/ CharLen(text) < MinBlockLen

\* lines 169-191: the loop over blocks
RECURSIVE CleanBlocks(_)
CleanBlocks(blocks) ==
    IF blocks = <<>> THEN <<>>
    ELSE LET block == Head(blocks)
             title == Strip(StripTrailingDigits(Strip(block.title)))
             text == _normalize_text(block.text)
             rest == CleanBlocks(Tail(blocks))
         IN  IF text = <<>> \/ IsNoise(text) THEN rest
             ELSE IF title # <<>> /\ ~StartsWith(text, title)
                  THEN <<title \o <<"NL">> \o text>> \o rest
                  ELSE <<text>> \o rest

_extract_tab_sections_text(dom) ==
    _normalize_text(Join(CleanBlocks(dom.blocks), <<"NL", "NL">>))

_extract_visible_panel_text(dom) == _normalize_text(dom.panel)

\* _extract_tab_sections_text(frame) or _extract_visible_panel_text(frame)
ExtractText(dom) ==
    IF _extract_tab_sections_text(dom) # <<>>
    THEN _extract_tab_sections_text(dom)
    ELSE _extract_visible_panel_text(dom)

\* the pages the model crawls
Doms ==
    { [blocks |-> <<>>, panel |-> <<>>],
      [blocks |-> << [title |-> <<"Depart">>,
                      text |-> <<"Depart", "SP", "Arrive", "SP", "Save", "SP", "Share">>],
                     [title |-> <<"Info", "2">>,
                      text |-> <<"Text", "CR", "Open", "SP", "Text", "NL", "Parking", "SP", "Text", "NL">>] >>,
       panel |-> <<"Text">>],
      [blocks |-> << [title |-> <<>>, text |-> <<"Short">>] >>,
       panel |-> <<"NL", "NaverMap", "SP", "Search", "NL", "NL", "NL", "Text", "SP">>] }

(***************************************************************************)
(* Crawl Orchestrator: crawl_place_tabs as a state machine.                *)
(***************************************************************************)
VARIABLES
    installed,      \* sync_playwright is not None (line 11-14)
    pc,             \* position in crawl_place_tabs
    map_url,        \* the argument of the running call
    place_id,       \* line 213
    map_entry_home, \* line 214
    result,         \* line 215
    playwright,     \* the sync_playwright() scope: "none", "started", "stopped"
    browser,        \* "none", "open", "closed"
    context,        \* "none", "open", "closed"
    page_url,       \* the URL the page was last sent to
    frame,          \* "none", "place", "main"
    tab_links,      \* line 230
    key,            \* the tab being collected
    attempts,       \* iterations of the running expand loop
    err,            \* <<>> or <<the exception the call raised>>
    returned,       \* <<>> or <<the CrawledPlaceData the call returned>>
    steps,          \* history: the home-page statements reached by the running call
    navs,           \* history: the tabs page.goto was called for
    expandLog,      \* history: what _expand_business_hours returned in the running loop
    lastExpand,     \* history: what happened inside the latest _expand_business_hours
    failures,       \* history: the extract_place_id failures of all calls
    input_dict,     \* merger: the record given to the first merge
    crawled,        \* merger: the crawl result merged in
    outs            \* merger: the outputs of the successive merges

crawlVars ==
    <<installed, pc, map_url, place_id, map_entry_home, result, playwright, browser,
      context, page_url, frame, tab_links, key, attempts, err, returned, steps, navs,
      expandLog, lastExpand, failures>>

mergeVars == <<input_dict, crawled, outs>>

vars == <<crawlVars, mergeVars>>

Keys == <<"home", "menu", "info", "news">>

KeySet == {"home", "menu", "info", "news"}

\* label_to_key, inverted (line 231)
Label(k) ==
    CASE k = "home" -> "Home" [] k = "menu" -> "Menu"
      [] k = "info" -> "Info" [] k = "news" -> "News"

Href(label) == <<"/restaurant", "/", label>>

\* what _extract_tab_links can return: a link for any subset of the labels
TabLinkMaps == {[l \in S |-> Href(l)] : S \in SUBSET {"Home", "Menu", "Info", "News"}}

Urls ==
    { <<>>,
      <<"SP", "NL">>,
      <<"https://", "map.naver.com", "/p", "/entry", "/place/", "1", "2", "?", "placePath">>,
      <<"SP", "https://", "map.naver.com", "/place/", "2", "SP">>,
      <<"https://", "map.naver.com", "/p", "?", "placeId=", "1">>,
      <<"https://", "example.com", "/x">>,
      <<"https://", "map.naver.com", "/place/", "x">>,
      <<"https://", "NAVER.ME", "/x">> }

\* line 214
MapEntryHome(id) ==
    <<"https://", "map.naver.com", "/p", "/entry", "/place/">> \o id \o <<"?", "placePath=%2Fhome">>

\* line 250: urljoin("https://pcmap.place.naver.com", href)
TabUrl(href) == <<"https://", "pcmap.place.naver.com">> \o href

EmptyResult == [k \in KeySet |-> <<>>]

\* lines 271-278
CrawledPlaceData(id, url, res) ==
    [place_id |-> id, source_url |-> url, home_text |-> res["home"],
     menu_text |-> res["menu"], info_text |-> res["info"], news_text |-> res["news"]]

HomeAttempts == 4

TabAttempts == 3

\* range(4) on the home page (line 234), range(3) on a tab (line 255)
MaxAttempts(k) == IF k = "home" THEN HomeAttempts ELSE TabAttempts

\* variant: the loop has no break
ExpandLoopNoBreak(found, n, k) == n = MaxAttempts(k)

\* the expand loop is left: break after a true return, or the range is used up
ExpandLoopDone(found, n, k) == found \/ n = MaxAttempts(k)

\* line 254: if key in {"home", "info"}
RunsExpandLoop(k) == k \in {"home", "info"}

\* what can happen inside _expand_business_hours: either evaluate call raises,
\* no control matches, or one matches and is clicked
ExpandOutcomes == {"scroll_raises", "scan_raises", "not_found", "clicked"}

\* variant: no try/except around the two evaluate calls
_expand_business_hours_Propagates(outcome) ==
    [value |-> outcome = "clicked", raised |-> outcome \in {"scroll_raises", "scan_raises"}]

\* lines 133-148: every exception is caught and False returned
_expand_business_hours(outcome) ==
    [value |-> outcome = "clicked", raised |-> FALSE]

\* variant: the tabs are discovered after the home text is extracted
HomeOrderTabsLast == <<"get_frame", "expand", "extract", "tab_links">>

\* the order of the home-page statements, lines 226-239
HomeOrder == <<"get_frame", "tab_links", "expand", "extract">>

\* the statement that follows home-page statement `step`
After(step) ==
    LET i == CHOOSE j \in 1..Len(HomeOrder) : HomeOrder[j] = step
    IN  IF i < Len(HomeOrder) THEN HomeOrder[i + 1] ELSE "tab_check"

\* the for loop of line 241: what follows the tab k
AfterTab(k) == IF k = "news" THEN "close_context" ELSE "tab_check"

NextKey(k) ==
    CASE k = "home" -> "menu" [] k = "menu" -> "info" [] k = "info" -> "news" [] k = "news" -> "news"

\* variant: the Playwright scope is not a with block, so nothing is released
\* when an exception leaves it
PlaywrightExitLeaks(res) == res

\* leaving the with block of line 218 (normally or by an exception) stops the
\* Playwright driver, which ends every browser and context it launched
PlaywrightExit(res) == IF res = "open" THEN "closed" ELSE res

\* lines 264-269: NotImplementedError is re-raised as RuntimeError
Translate(e) ==
    IF e.kind = "NotImplementedError"
    THEN [kind |-> "RuntimeError", msg |-> "browser process could not be started"]
    ELSE e

Error(kind, msg) == [kind |-> kind, msg |-> msg]

\* an exception leaves the try block from inside the with block
RaiseInWith(e) ==
    /\ playwright' = "stopped"
    /\ browser' = PlaywrightExit(browser)
    /\ context' = PlaywrightExit(context)
    /\ err' = <<Translate(e)>>
    /\ pc' = "raised"

\* the key collected when control reaches `nextpc` after tab k
KeyAt(nextpc, k) == IF nextpc = "tab_check" THEN NextKey(k) ELSE k

NoMerge == <<input_dict, crawled, outs>>

\* crawl_place_tabs(map_url) is called; lines 198-202
Call ==
    /\ pc \in {"idle", "returned", "raised"}
    /\ \E url \in Urls : map_url' = url
    /\ place_id' = <<>>
    /\ map_entry_home' = <<>>
    /\ result' = EmptyResult
    /\ playwright' = "none"
    /\ browser' = "none"
    /\ context' = "none"
    /\ page_url' = <<>>
    /\ frame' = "none"
    /\ tab_links' = << >>
    /\ key' = "home"
    /\ attempts' = 0
    /\ returned' = <<>>
    /\ steps' = <<>>
    /\ navs' = <<>>
    /\ expandLog' = <<>>
    /\ lastExpand' = "none"
    /\ IF installed
       THEN pc' = "resolve" /\ err' = <<>>
       ELSE pc' = "raised" /\ err' = <<Error("RuntimeError", "playwright is not installed")>>
    /\ UNCHANGED <<installed, failures>>
    /\ UNCHANGED NoMerge

\* why extract_place_id failed on url, from its input alone
Cause(url, net) ==
    IF Strip(url) = <<>> THEN "blank"
    ELSE IF IsShortHost(Lower(Netloc(Strip(url)))) /\ ~net.ok THEN "network"
    ELSE "nomatch"

\* variant: extract_place_id runs inside the try block and its failure is put off
ResolveDeferred ==
    /\ pc = "resolve"
    /\ \E net \in NetOutcomes :
         LET r == extract_place_id(map_url, net)
         IN  /\ place_id' = r.id
             /\ map_entry_home' = MapEntryHome(r.id)
             /\ pc' = "enter"
             /\ UNCHANGED err
    /\ result' = EmptyResult
    /\ UNCHANGED <<installed, failures, map_url, playwright, browser, context, page_url, frame,
                   tab_links, key, attempts, returned, steps, navs, expandLog, lastExpand>>
    /\ UNCHANGED NoMerge

\* line 213-215
Resolve ==
    /\ pc = "resolve"
    /\ \E net \in NetOutcomes :
         LET r == extract_place_id(map_url, net)
         IN  IF r.ok
             THEN /\ place_id' = r.id
                  /\ map_entry_home' = MapEntryHome(r.id)
                  /\ pc' = "enter"
                  /\ UNCHANGED err
             ELSE /\ err' = <<Error(r.kind, r.msg)>>
                  /\ pc' = "raised"
                  /\ UNCHANGED <<place_id, map_entry_home>>
    /\ result' = EmptyResult
    /\ UNCHANGED <<installed, failures, map_url, playwright, browser, context, page_url, frame,
                   tab_links, key, attempts, returned, steps, navs, expandLog, lastExpand>>
    /\ UNCHANGED NoMerge

\* line 218: with sync_playwright() as p
EnterPlaywright ==
    /\ pc = "enter"
    /\ \E o \in {"ok", "NotImplementedError", "Error"} :
         IF o = "ok"
         THEN playwright' = "started" /\ pc' = "launch" /\ UNCHANGED err
         ELSE /\ err' = <<Translate(Error(o, "driver could not be started"))>>
              /\ pc' = "raised"
              /\ UNCHANGED playwright
    /\ UNCHANGED <<installed, map_url, place_id, map_entry_home, result, browser, context,
                   page_url, frame, tab_links, key, attempts, returned, steps, navs,
                   expandLog, lastExpand, failures>>
    /\ UNCHANGED NoMerge

\* line 219: p.chromium.launch(headless=headless)
Launch ==
    /\ pc = "launch"
    /\ \E o \in {"ok", "NotImplementedError", "Error"} :
         IF o = "ok"
         THEN browser' = "open" /\ pc' = "new_context" /\ UNCHANGED <<playwright, context, err>>
         ELSE RaiseInWith(Error(o, "launch failed"))
    /\ UNCHANGED <<installed, map_url, place_id, map_entry_home, result,
                   page_url, frame, tab_links, key, attempts, returned, steps, navs,
                   expandLog, lastExpand, failures>>
    /\ UNCHANGED NoMerge

\* line 220: browser.new_context(...)
NewContext ==
    /\ pc = "new_context"
    /\ \E o \in {"ok", "Error"} :
         IF o = "ok"
         THEN context' = "open" /\ pc' = "new_page" /\ UNCHANGED <<playwright, browser, err>>
         ELSE RaiseInWith(Error(o, "new_context failed"))
    /\ UNCHANGED <<installed, map_url, place_id, map_entry_home, result,
                   page_url, frame, tab_links, key, attempts, returned, steps, navs,
                   expandLog, lastExpand, failures>>
    /\ UNCHANGED NoMerge

\* lines 221-222: context.new_page(); page.set_default_timeout(timeout_ms)
NewPage ==
    /\ pc = "new_page"
    /\ \E o \in {"ok", "Error"} :
         IF o = "ok"
         THEN pc' = "goto_home" /\ UNCHANGED <<playwright, browser, context, err>>
         ELSE RaiseInWith(Error(o, "new_page failed"))
    /\ UNCHANGED <<installed, map_url, place_id, map_entry_home, result,
                   page_url, frame, tab_links, key, attempts, returned, steps, navs,
                   expandLog, lastExpand, failures>>
    /\ UNCHANGED NoMerge

\* lines 224-225: page.goto(map_entry_home); page.wait_for_timeout(3500)
GotoHome ==
    /\ pc = "goto_home"
    /\ navs' = Append(navs, "home")
    /\ page_url' = map_entry_home
    /\ \E o \in {"ok", "TimeoutError"} :
         IF o = "ok"
         THEN pc' = HomeOrder[1] /\ UNCHANGED <<playwright, browser, context, err>>
         ELSE RaiseInWith(Error(o, "navigation failed"))
    /\ UNCHANGED <<installed, map_url, place_id, map_entry_home, result,
                   frame, tab_links, key, attempts, returned, steps,
                   expandLog, lastExpand, failures>>
    /\ UNCHANGED NoMerge

\* lines 226-228: _get_place_frame(page), and the raise when it is None
GetFrame ==
    /\ pc = "get_frame"
    /\ \E found \in BOOLEAN :
         IF found
         THEN /\ frame' = "place"
              /\ steps' = Append(steps, "get_frame")
              /\ pc' = After("get_frame")
              /\ key' = KeyAt(After("get_frame"), key)
              /\ UNCHANGED <<playwright, browser, context, err>>
         ELSE /\ RaiseInWith(Error("RuntimeError", "place frame not found"))
              /\ UNCHANGED <<frame, steps, key>>
    /\ UNCHANGED <<installed, map_url, place_id, map_entry_home, result,
                   page_url, tab_links, attempts, returned, navs,
                   expandLog, lastExpand, failures>>
    /\ UNCHANGED NoMerge

\* line 230: tab_links = _extract_tab_links(frame)
TabLinks ==
    /\ pc = "tab_links"
    /\ \/ \E links \in TabLinkMaps :
            /\ tab_links' = links
            /\ steps' = Append(steps, "tab_links")
            /\ pc' = After("tab_links")
            /\ key' = KeyAt(After("tab_links"), key)
            /\ UNCHANGED <<playwright, browser, context, err>>
       \/ /\ RaiseInWith(Error("Error", "evaluate failed"))
          /\ UNCHANGED <<tab_links, steps, key>>
    /\ UNCHANGED <<installed, map_url, place_id, map_entry_home, result,
                   page_url, frame, attempts, returned, navs,
                   expandLog, lastExpand, failures>>
    /\ UNCHANGED NoMerge

\* lines 234-238 (home) and 255-259 (a tab): one iteration of the expand loop
Expand ==
    /\ pc = "expand"
    /\ \E o \in ExpandOutcomes :
         LET r == _expand_business_hours(o)
         IN  /\ lastExpand' = o
             /\ IF r.raised
                THEN /\ RaiseInWith(Error("Error", "evaluate failed"))
                     /\ UNCHANGED <<expandLog, steps, attempts, key>>
                ELSE /\ expandLog' = Append(expandLog, r.value)
                     /\ steps' = IF key = "home" /\ attempts = 0
                                 THEN Append(steps, "expand") ELSE steps
                     /\ IF ExpandLoopDone(r.value, attempts + 1, key)
                        THEN /\ attempts' = 0
                             /\ pc' = IF key = "home" THEN After("expand") ELSE "extract"
                             /\ key' = IF key = "home" THEN KeyAt(After("expand"), key) ELSE key
                        ELSE /\ attempts' = attempts + 1
                             /\ pc' = "expand"
                             /\ key' = key
                     /\ UNCHANGED <<playwright, browser, context, err>>
    /\ UNCHANGED <<installed, map_url, place_id, map_entry_home, result,
                   page_url, frame, tab_links, returned, navs, failures>>
    /\ UNCHANGED NoMerge

\* lines 239 and 260: result[key] = sections text or visible panel text
Extract ==
    /\ pc = "extract"
    /\ \/ \E d \in Doms :
            LET nextpc == IF key = "home" THEN After("extract") ELSE AfterTab(key)
            IN  /\ result' = [result EXCEPT ![key] = ExtractText(d)]
                /\ steps' = IF key = "home" THEN Append(steps, "extract") ELSE steps
                /\ pc' = nextpc
                /\ key' = KeyAt(nextpc, key)
                /\ UNCHANGED <<playwright, browser, context, err>>
       \/ /\ RaiseInWith(Error("Error", "evaluate failed"))
          /\ UNCHANGED <<result, steps, key>>
    /\ lastExpand' = "none"
    /\ expandLog' = <<>>
    /\ UNCHANGED <<installed, map_url, place_id, map_entry_home,
                   page_url, frame, tab_links, attempts, returned, navs, failures>>
    /\ UNCHANGED NoMerge

\* variant: the missing-link test of lines 245-248 is absent
TabCheckAlwaysGoto ==
    /\ pc = "tab_check"
    /\ pc' = "tab_goto"
    /\ UNCHANGED <<result, key>>
    /\ UNCHANGED <<installed, map_url, place_id, map_entry_home, playwright, browser,
                   context, page_url, frame, tab_links, attempts, err, returned, steps,
                   navs, expandLog, lastExpand, failures>>
    /\ UNCHANGED NoMerge

\* lines 241-248: the tab has no link, so it is left empty
TabCheck ==
    /\ pc = "tab_check"
    /\ IF Label(key) \in DOMAIN tab_links
       THEN pc' = "tab_goto" /\ UNCHANGED <<result, key>>
       ELSE /\ result' = [result EXCEPT ![key] = <<>>]
            /\ pc' = AfterTab(key)
            /\ key' = KeyAt(AfterTab(key), key)
    /\ UNCHANGED <<installed, map_url, place_id, map_entry_home, playwright, browser,
                   context, page_url, frame, tab_links, attempts, err, returned, steps,
                   navs, expandLog, lastExpand, failures>>
    /\ UNCHANGED NoMerge

\* lines 250-254: page.goto(tab_url), the settle wait, the frame of the tab
TabGoto ==
    /\ pc = "tab_goto"
    /\ navs' = Append(navs, key)
    /\ page_url' = TabUrl(Get(tab_links, Label(key)))
    /\ \/ \E f \in {"place", "main"} :
            /\ frame' = f
            /\ pc' = IF RunsExpandLoop(key) THEN "expand" ELSE "extract"
            /\ UNCHANGED <<playwright, browser, context, err>>
       \/ /\ RaiseInWith(Error("TimeoutError", "navigation failed"))
          /\ UNCHANGED frame
    /\ UNCHANGED <<installed, map_url, place_id, map_entry_home, result,
                   tab_links, key, attempts, returned, steps,
                   expandLog, lastExpand, failures>>
    /\ UNCHANGED NoMerge

\* line 262: context.close()
CloseContext ==
    /\ pc = "close_context"
    /\ \/ /\ context' = "closed"
          /\ pc' = "close_browser"
          /\ UNCHANGED <<playwright, browser, err>>
       \/ RaiseInWith(Error("Error", "close failed"))
    /\ UNCHANGED <<installed, map_url, place_id, map_entry_home, result,
                   page_url, frame, tab_links, key, attempts, returned, steps, navs,
                   expandLog, lastExpand, failures>>
    /\ UNCHANGED NoMerge

\* lines 263-278: browser.close(), the end of the with block, the return
CloseBrowser ==
    /\ pc = "close_browser"
    /\ \/ /\ browser' = "closed"
          /\ context' = PlaywrightExit(context)
          /\ playwright' = "stopped"
          /\ returned' = <<CrawledPlaceData(place_id, map_entry_home, result)>>
          /\ pc' = "returned"
          /\ UNCHANGED err
       \/ /\ RaiseInWith(Error("Error", "close failed"))
          /\ UNCHANGED returned
    /\ UNCHANGED <<installed, map_url, place_id, map_entry_home, result,
                   page_url, frame, tab_links, key, attempts, steps, navs,
                   expandLog, lastExpand, failures>>
    /\ UNCHANGED NoMerge

IdleMerge ==
    /\ input_dict = << >>
    /\ crawled = CrawledPlaceData(<<>>, <<>>, EmptyResult)
    /\ outs = <<>>

Init ==
    /\ installed \in BOOLEAN
    /\ pc = "idle"
    /\ map_url = <<>>
    /\ place_id = <<>>
    /\ map_entry_home = <<>>
    /\ result = EmptyResult
    /\ playwright = "none"
    /\ browser = "none"
    /\ context = "none"
    /\ page_url = <<>>
    /\ frame = "none"
    /\ tab_links = << >>
    /\ key = "home"
    /\ attempts = 0
    /\ err = <<>>
    /\ returned = <<>>
    /\ steps = <<>>
    /\ navs = <<>>
    /\ expandLog = <<>>
    /\ lastExpand = "none"
    /\ failures = {}
    /\ IdleMerge

Next ==
    \/ Call
    \/ Resolve
    \/ EnterPlaywright
    \/ Launch
    \/ NewContext
    \/ NewPage
    \/ GotoHome
    \/ GetFrame
    \/ TabLinks
    \/ Expand
    \/ Extract
    \/ TabCheck
    \/ TabGoto
    \/ CloseContext
    \/ CloseBrowser

Spec == Init /\ [][Next]_vars

(***************************************************************************)
(* extract_place_id on its own: every call is applied to a URL of          *)
(* ResolverUrls under some network outcome, and its failures are logged.   *)
(***************************************************************************)
ResolverUrls ==
    Urls \cup
    { <<"CR">>,
      <<"https://", "naver.me", "/", "1">>,
      <<"https://", "map.naver.com", "/place/", "1", "/entry", "/place/", "2">>,
      <<"https://", "map.naver.com", "?", "placeId=", "1", "2", "x">>,
      <<"https://", "example.com", "/entry", "/place/">>,
      <<"https://", "map.naver.com", "/p", "/entry", "/place/", "2", "1">>,
      <<"NL", "https://", "NAVER.ME", "/x", "SP">> }

ExtractPlaceIdCall ==
    /\ \E url \in ResolverUrls, net \in NetOutcomes :
         LET r == extract_place_id(url, net)
         IN  /\ map_url' = url
             /\ place_id' = r.id
             /\ err' = IF r.ok THEN <<>> ELSE <<Error(r.kind, r.msg)>>
             /\ pc' = IF r.ok THEN "resolved" ELSE "raised"
             /\ failures' =
                  IF r.ok THEN failures
                  ELSE failures \cup
                         {[cause |-> Cause(url, net), kind |-> r.kind, msg |-> r.msg]}
    /\ UNCHANGED <<installed, map_entry_home, result, playwright, browser, context,
                   page_url, frame, tab_links, key, attempts, returned, steps, navs,
                   expandLog, lastExpand>>
    /\ UNCHANGED NoMerge

InitResolve == Init /\ installed

NextResolve == ExtractPlaceIdCall

SpecResolve == InitResolve /\ [][NextResolve]_vars

(***************************************************************************)
(* merge_blog_input_with_crawl on its own: a form record and a crawl       *)
(* result are drawn, and the merge is applied to the record, then to its   *)
(* own output again.                                                       *)
(***************************************************************************)
MaxMerges == 2

Absent == <<"(absent)">>

\* the records of the form: each field absent, empty or filled in
FormFields ==
    [ place_name : {Absent, <<>>, <<"Name">>},
      business_hours : {<<>>, <<"Hours">>},
      location_info : {Absent, <<>>, <<"SP">>, <<"Seoul">>, <<"SP", "Seoul", "NL">>},
      home_tab_info : {<<>>, <<"Mine">>},
      menu_tab_info : {<<>>, <<"Mine">>},
      info_tab_info : {<<>>, <<"Mine">>},
      news_tab_info : {<<>>, <<"Mine">>},
      parking_or_tips : {<<>>, <<"Tip">>},
      target_keyword : {<<>>, <<"Kw">>},
      tone : {<<"Tone">>} ]

DropAbsent(r) == [k \in {x \in DOMAIN r : r[x] # Absent} |-> r[k]]

InputRecords == {DropAbsent(r) : r \in FormFields}

\* the texts a crawl can put in a record
CrawlTexts == {ExtractText(d) : d \in Doms}

\* the records a crawl can return
CrawlResults ==
    {CrawledPlaceData(<<"1", "2">>, MapEntryHome(<<"1", "2">>), res) :
        res \in [home : CrawlTexts, menu : {<<>>, <<"Text">>},
                 info : CrawlTexts, news : {<<>>, <<"Text">>}]}

InitMerge ==
    /\ installed = TRUE
    /\ pc = "idle"
    /\ map_url = <<>>
    /\ place_id = <<>>
    /\ map_entry_home = <<>>
    /\ result = EmptyResult
    /\ playwright = "none"
    /\ browser = "none"
    /\ context = "none"
    /\ page_url = <<>>
    /\ frame = "none"
    /\ tab_links = << >>
    /\ key = "home"
    /\ attempts = 0
    /\ err = <<>>
    /\ returned = <<>>
    /\ steps = <<>>
    /\ navs = <<>>
    /\ expandLog = <<>>
    /\ lastExpand = "none"
    /\ failures = {}
    /\ input_dict \in InputRecords
    /\ crawled \in CrawlResults
    /\ outs = <<>>

\* merge_blog_input_with_crawl(the latest record, crawled)
Merge ==
    /\ Len(outs) < MaxMerges
    /\ outs' = Append(outs,
                 merge_blog_input_with_crawl(
                    IF outs = <<>> THEN input_dict ELSE outs[Len(outs)], crawled))
    /\ UNCHANGED <<input_dict, crawled>>
    /\ UNCHANGED crawlVars

NextMerge == Merge

SpecMerge == InitMerge /\ [][NextMerge]_vars

(***************************************************************************)
(* The claims.                                                             *)
(***************************************************************************)
TabKeys == {"menu", "info", "news"}

TextOf(rec, k) ==
    CASE k = "home" -> rec.home_text [] k = "menu" -> rec.menu_text
      [] k = "info" -> rec.info_text [] k = "news" -> rec.news_text

\* C1: whenever a call of crawl_place_tabs that launched a browser and created a
\* context has returned or raised, the browser and the context are closed.
C1_SessionClosedOnExit ==
    (pc \in {"returned", "raised"} /\ context # "none")
        => (browser = "closed" /\ context = "closed" /\ playwright = "stopped")

\* the call raised because the place frame was not found, with the session closed
C1_Witness ==
    /\ pc = "raised"
    /\ err = <<Error("RuntimeError", "place frame not found")>>
    /\ browser = "closed"
    /\ context = "closed"

\* C2: a non-home tab whose label has no link in tab_links is never navigated
\* to, and its text in result and in the returned record is empty.
C2_NoLinkNoNavigation ==
    \A k \in TabKeys :
        Label(k) \notin DOMAIN tab_links =>
            /\ \A i \in 1..Len(navs) : navs[i] # k
            /\ result[k] = <<>>
            /\ returned # <<>> => TextOf(returned[1], k) = <<>>

\* a record was returned for a place with a menu link and no news link
C2_Witness ==
    /\ returned # <<>>
    /\ "News" \notin DOMAIN tab_links
    /\ "Menu" \in DOMAIN tab_links
    /\ returned[1].menu_text # <<>>
    /\ returned[1].news_text = <<>>
    /\ navs = <<"home", "menu">>

BackfillFields ==
    {"home_tab_info", "menu_tab_info", "info_tab_info", "news_tab_info",
     "parking_or_tips", "target_keyword", "place_name", "business_hours"}

\* the record the i-th merge was applied to
MergeInput(i) == IF i = 1 THEN input_dict ELSE outs[i - 1]

\* C3: every backfill-only field that is non-empty in the record given to a
\* merge has exactly the same value in the merge's output.
C3_BackfillOnly ==
    \A i \in 1..Len(outs) : \A f \in BackfillFields :
        (f \in DOMAIN MergeInput(i) /\ MergeInput(i)[f] # <<>>)
            => (f \in DOMAIN outs[i] /\ outs[i][f] = MergeInput(i)[f])

\* a merge ran on a record with all eight fields filled in, against a crawl
\* that had a name, hours, tips and tab texts to offer
C3_Witness ==
    /\ Len(outs) >= 1
    /\ \A f \in BackfillFields : Get(input_dict, f) # <<>>
    /\ _guess_place_name(crawled.home_text) # <<>>
    /\ _guess_business_hours(crawled.home_text \o <<"NL">> \o crawled.info_text) # <<>>
    /\ crawled.menu_text # <<>>
    /\ crawled.news_text # <<>>
    /\ In(<<"Parking">>, crawled.info_text)

LinkLine == LinkPrefix \o crawled.source_url

\* C4 as stated: a non-empty location_info becomes the existing value, a
\* newline and the link line; an empty or absent one becomes the link line.
C4_Original ==
    \A i \in 1..Len(outs) :
        /\ "location_info" \in DOMAIN outs[i]
        /\ outs[i]["location_info"] =
             IF Get(MergeInput(i), "location_info") # <<>>
             THEN MergeInput(i)["location_info"] \o <<"NL">> \o LinkLine
             ELSE LinkLine

\* C4 amended: a non-empty location_info becomes the existing value stripped
\* of leading and trailing whitespace, a newline and the link line; an empty
\* or absent one becomes the link line.
C4_Amended ==
    \A i \in 1..Len(outs) :
        /\ "location_info" \in DOMAIN outs[i]
        /\ outs[i]["location_info"] =
             IF Get(MergeInput(i), "location_info") # <<>>
             THEN Strip(MergeInput(i)["location_info"]) \o <<"NL">> \o LinkLine
             ELSE LinkLine

\* a merge appended the link line to a location_info padded with whitespace
C4_Witness ==
    /\ Len(outs) >= 1
    /\ Get(input_dict, "location_info") = <<"SP", "Seoul", "NL">>
    /\ outs[1]["location_info"] = <<"Seoul", "NL">> \o LinkLine

\* C5 as stated: a second merge of the same crawl result changes nothing but
\* location_info, which is the first merge's value with the link line
\* appended once more.
C5_Original ==
    \A i \in 2..Len(outs) :
        outs[i] = [outs[i - 1] EXCEPT
                     !["location_info"] = outs[i - 1]["location_info"] \o <<"NL">> \o LinkLine]

\* C5 amended: a second merge of the same crawl result changes nothing but
\* location_info, which is the first merge's value, stripped of leading and
\* trailing whitespace, with the link line appended once more.
C5_Amended ==
    \A i \in 2..Len(outs) :
        outs[i] = [outs[i - 1] EXCEPT
                     !["location_info"] =
                         Strip(outs[i - 1]["location_info"]) \o <<"NL">> \o LinkLine]

\* the merge ran twice, and the first run had backfilled a guessed name
C5_Witness ==
    /\ Len(outs) = 2
    /\ Get(input_dict, "place_name") = <<>>
    /\ Get(outs[1], "place_name") # <<>>
    /\ outs[2]["place_name"] = outs[1]["place_name"]
    /\ outs[2]["location_info"] # outs[1]["location_info"]

\* C6 as stated: an empty URL and a URL without an identifier fail with two
\* different error kinds.
C6_Original ==
    \A f \in failures, g \in failures :
        (f.cause = "blank" /\ g.cause = "nomatch") => f.kind # g.kind

\* C6 amended: an empty or whitespace-only URL and a URL without an
\* identifier fail with the same error kind, ValueError, and differ in the
\* message alone.
C6_Amended ==
    \A f \in failures :
        /\ f.cause = "blank" => (f.kind = "ValueError" /\ f.msg = "url is empty")
        /\ f.cause = "nomatch" => (f.kind = "ValueError" /\ f.msg = "placeId not found")

\* both failures have been raised
C6_Witness ==
    /\ \E f \in failures : f.cause = "blank"
    /\ \E g \in failures : g.cause = "nomatch"

\* C7: the expand loop makes at most 4 calls on the home page and at most 3
\* on a tab, and no call follows one that returned true.
C7_ExpandLoopBounded ==
    /\ Len(expandLog) <= (IF key = "home" THEN 4 ELSE 3)
    /\ \A i \in 1..(Len(expandLog) - 1) : ~expandLog[i]

\* the home loop used all four attempts and the last one succeeded
C7_Witness ==
    /\ key = "home"
    /\ expandLog = <<FALSE, FALSE, FALSE, TRUE>>

\* C8 as stated: the tabs are never discovered before the home text has been
\* extracted.
C8_Original ==
    \A i \in 1..Len(steps) :
        steps[i] = "tab_links" => \E j \in 1..(i - 1) : steps[j] = "extract"

\* C8 amended: after the place frame is located the tabs are discovered, then
\* the expand loop runs, then the home text is extracted, and only then is a
\* tab navigated to.
C8_Amended ==
    /\ steps = SubSeq(<<"get_frame", "tab_links", "expand", "extract">>, 1, Len(steps))
    /\ (\E i \in 1..Len(navs) : navs[i] # "home") => Len(steps) = 4

\* all four home-page steps were taken
C8_Witness == Len(steps) = 4 /\ pc = "tab_check"

\* C9: when an evaluate call inside _expand_business_hours raises, the call
\* returns false, crawl_place_tabs has not failed, and the loop goes on or the
\* text extraction is next.
C9_ExpandErrorsSwallowed ==
    lastExpand \in {"scroll_raises", "scan_raises"} =>
        /\ pc \in {"expand", "extract"}
        /\ err = <<>>
        /\ expandLog # <<>>
        /\ ~expandLog[Len(expandLog)]
        /\ pc = "expand" => attempts = Len(expandLog)

\* every attempt on the home page raised, and the extraction is next
C9_Witness ==
    /\ lastExpand = "scan_raises"
    /\ key = "home"
    /\ Len(expandLog) = 4
    /\ pc = "extract"

\* C10: a session exists only in calls that obtained a place id; when
\* extract_place_id fails nothing is launched, navigated to or returned.
C10_ResolveBeforeSession ==
    /\ playwright # "none" => place_id # <<>>
    /\ place_id = <<>> =>
         (browser = "none" /\ context = "none" /\ navs = <<>> /\ returned = <<>>)
    /\ pc = "enter" => place_id # <<>>

\* extract_place_id failed and no session was opened
C10_Witness ==
    /\ pc = "raised"
    /\ err = <<Error("ValueError", "placeId not found")>>
    /\ playwright = "none"
    /\ browser = "none"
    /\ navs = <<>>

====
